---- MODULE Spec2Model ----
(***************************************************************************)
(* Model of src/syllabus_processor.py: the SyllabusProcessor pipeline.     *)
(*                                                                         *)
(* Python strings are sequences of one-character strings.  Python and JSON *)
(* values are tagged records [t |-> tag, v |-> payload].  The event loop   *)
(* is cooperative: one action is the code a coroutine runs between two     *)
(* suspension points.  The return of query_gemini and the continuation of  *)
(* its awaiter are two consecutive actions, so the frame of the call       *)
(* (attempt, number of requests, delays slept) is visible when it returns. *)
(***************************************************************************)
EXTENDS Integers, Sequences, FiniteSets, TLC

VARIABLES pc, call, topics_text, topics, task, order, results,
          queue, invoked, looked, output

vars == <<pc, call, topics_text, topics, task, order, results,
          queue, invoked, looked, output>>

(***************************************************************************)
(* Values                                                                  *)
(***************************************************************************)
Str(s) == [t |-> "str", v |-> s]
Null == [t |-> "null", v |-> <<>>]
Num == [t |-> "num", v |-> <<>>]
List(s) == [t |-> "list", v |-> s]
Dict(f) == [t |-> "dict", v |-> f]
Exc(kind) == [t |-> "exc", v |-> kind]
Unset == [t |-> "unset", v |-> <<>>]

EmptyDict == Dict(<<>>)
EmptyStr == Str(<<>>)

IsExc(x) == x.t = "exc"
IsStr(x) == x.t = "str"

(***************************************************************************)
(* str methods used by the program                                         *)
(***************************************************************************)
Whitespace == {" ", "\t", "\n", "\r"}

RECURSIVE LStrip(_)
LStrip(s) ==
    IF s = <<>> THEN <<>>
    ELSE IF Head(s) \in Whitespace THEN LStrip(Tail(s)) ELSE s

RECURSIVE RStrip(_)
RStrip(s) ==
    IF s = <<>> THEN <<>>
    ELSE IF s[Len(s)] \in Whitespace THEN RStrip(SubSeq(s, 1, Len(s) - 1)) ELSE s

\* str.strip()
Strip(s) == RStrip(LStrip(s))

\* str.startswith(prefix)
StartsWith(s, prefix) ==
    /\ Len(s) >= Len(prefix)
    /\ SubSeq(s, 1, Len(prefix)) = prefix

\* str.replace(old, new), old non-empty: every non-overlapping occurrence,
\* scanning left to right
RECURSIVE Replace(_, _, _)
Replace(s, old, new) ==
    IF s = <<>> THEN <<>>
    ELSE IF StartsWith(s, old)
         THEN new \o Replace(SubSeq(s, Len(old) + 1, Len(s)), old, new)
         ELSE <<Head(s)>> \o Replace(Tail(s), old, new)

\* str.split(sep) for a one-character separator: never an empty list; the
\* k-th piece lies between the (k-1)-th and the k-th separator
Split(s, sep) ==
    LET seps == { i \in 1..Len(s) : s[i] = sep }
        n == Cardinality(seps)
        At(k) == IF k = 0 THEN 0
                 ELSE IF k = n + 1 THEN Len(s) + 1
                 ELSE CHOOSE p \in seps : Cardinality({ q \in seps : q < p }) = k - 1
    IN [k \in 1..(n + 1) |-> SubSeq(s, At(k - 1) + 1, At(k) - 1)]

\* the marker 'Topic:' of lines 133-134
Marker == <<"T", "o", "p", "i", "c", ":">>

\* the f-string of line 81
FallbackPrefix ==
    <<"D", "e", "s", "c", "r", "i", "p", "t", "i", "o", "n", " ",
      "g", "e", "n", "e", "r", "a", "t", "i", "o", "n", " ",
      "f", "a", "i", "l", "e", "d", " ", "f", "o", "r", " ">>

Fallback(topic) == FallbackPrefix \o topic

(***************************************************************************)
(* Line 54: data.get('candidates', [{}])[0].get('content', {})             *)
(*              .get('parts', [{}])[0].get('text', '')                     *)
(***************************************************************************)
\* x.get(key, default): only a dict has .get
Get(x, key, default) ==
    IF IsExc(x) THEN x
    ELSE IF x.t # "dict" THEN Exc("AttributeError")
    ELSE IF key \in DOMAIN x.v THEN x.v[key] ELSE default

\* x[0]
Index0(x) ==
    IF IsExc(x) THEN x
    ELSE IF x.t = "list" THEN (IF x.v = <<>> THEN Exc("IndexError") ELSE x.v[1])
    ELSE IF x.t = "str" THEN (IF x.v = <<>> THEN Exc("IndexError") ELSE Str(<<x.v[1]>>))
    ELSE IF x.t = "dict" THEN Exc("KeyError")
    ELSE Exc("TypeError")

GetText(data) ==
    LET candidates == Get(data, "candidates", List(<<EmptyDict>>))
        content == Get(Index0(candidates), "content", EmptyDict)
        parts == Get(content, "parts", List(<<EmptyDict>>))
    IN Get(Index0(parts), "text", EmptyStr)

(***************************************************************************)
(* Program constants                                                       *)
(***************************************************************************)
max_retries == 3
base_delay == 1
max_workers == 10

RECURSIVE Pow2(_)
Pow2(n) == IF n = 0 THEN 1 ELSE 2 * Pow2(n - 1)

\* a linear backoff instead of the exponential one
Delay_Linear(attempt) == base_delay * (attempt + 1)

\* lines 49 and 59: base_delay * (2 ** attempt)
Delay(attempt) == base_delay * Pow2(attempt)

(***************************************************************************)
(* What the collaborators can answer                                       *)
(***************************************************************************)
\* a response body of the expected shape whose text field is `text`
Response(text) ==
    Dict("candidates" :> List(<<
        Dict("content" :> Dict("parts" :> List(<< Dict("text" :> text) >>))) >>))

NoTextBody ==
    Dict("candidates" :> List(<<
        Dict("content" :> Dict("parts" :> List(<< EmptyDict >>))) >>))
EmptyPartsBody ==
    Dict("candidates" :> List(<< Dict("content" :> Dict("parts" :> List(<<>>))) >>))
NoPartsBody == Dict("candidates" :> List(<< Dict("content" :> EmptyDict) >>))
NoContentBody == Dict("candidates" :> List(<< EmptyDict >>))
EmptyCandidatesBody == Dict("candidates" :> List(<<>>))
NoCandidatesBody == EmptyDict

OddBodies ==
    { Response(Null), Response(Num), NoTextBody, EmptyPartsBody, NoPartsBody,
      NoContentBody, EmptyCandidatesBody, NoCandidatesBody }

\* "Topic: A\nNote: B\nTopic:  C "
ExampleText ==
    Marker \o <<" ", "A", "\n", "N", "o", "t", "e", ":", " ", "B", "\n">>
           \o Marker \o <<" ", " ", "C", " ">>

\* "Topic: A\nTopic: A"
TwiceText == Marker \o <<" ", "A", "\n">> \o Marker \o <<" ", "A">>

\* "Topic: C"
OneText == Marker \o <<" ", "C">>

\* "Note: B"
NoTopicText == <<"N", "o", "t", "e", ":", " ", "B">>

ExtractTexts == { <<>>, NoTopicText, OneText, ExampleText, TwiceText }

DescTexts == { <<>>, <<" ">>, <<"d">>, <<" ", "d", "\n">> }

\* exceptions session.post / response.json() raise: transport, timeout, parse
TransportErrors == { "ClientError", "TimeoutError", "ContentTypeError" }

\* caller 0 is the extraction call of process_all, caller i >= 1 the
\* description call of the i-th topic
Bodies(c) ==
    OddBodies \cup { Response(Str(s)) : s \in (IF c = 0 THEN ExtractTexts ELSE DescTexts) }

(***************************************************************************)
(* query_gemini (lines 31-61): one frame per call in progress              *)
(***************************************************************************)
\* one iteration too many
InRange_OffByOne(attempt) == attempt <= max_retries

\* line 35: for attempt in range(max_retries)
InRange(attempt) == attempt < max_retries

\* a handler that misses the timeout of the request
ExceptCatches_NotTimeout(kind) == kind # "TimeoutError"

\* line 56: except Exception
ExceptCatches(kind) == TRUE

\* a sleep after the last attempt too
AttemptsRemain_Always(attempt) == TRUE

\* line 58: if attempt < max_retries - 1
AttemptsRemain(attempt) == attempt < max_retries - 1

\* the loop reaches iteration `attempt`: post the request (line 37), or
\* fall out of the loop and return "" (line 61)
Iterate(f, attempt) ==
    IF InRange(attempt)
    THEN [f EXCEPT !.attempt = attempt, !.phase = "request",
                   !.requests = f.requests + 1]
    ELSE [f EXCEPT !.phase = "returned", !.result = EmptyStr, !.exhausted = TRUE]

\* entry of query_gemini: lines 32-37
NewCall ==
    Iterate([attempt |-> 0, phase |-> "entry", requests |-> 0, slept |-> 0,
             hist |-> <<>>, data |-> Unset, result |-> Unset,
             exhausted |-> FALSE], 0)

\* lines 48-51: status 429: sleep, then continue
OnRateLimit(f) ==
    [f EXCEPT !.phase = "sleep", !.slept = f.slept + Delay(f.attempt),
              !.hist = Append(f.hist, "rate_limit")]

\* lines 56-59: an exception raised inside the try block
OnException(f, kind, tag) ==
    LET g == [f EXCEPT !.hist = Append(f.hist, tag)]
    IN IF ~ExceptCatches(kind)
       THEN [g EXCEPT !.phase = "raised", !.result = Exc(kind)]
       ELSE IF AttemptsRemain(f.attempt)
            THEN [g EXCEPT !.phase = "sleep", !.slept = f.slept + Delay(f.attempt)]
            ELSE Iterate(g, f.attempt + 1)

\* lines 53-54: a response with another status: parse the body, return the text
OnBody(f, data) ==
    LET text == GetText(data)
        g == [f EXCEPT !.data = data]
    IN IF IsExc(text)
       THEN OnException(g, text.v, "bad_shape")
       ELSE [g EXCEPT !.phase = "returned", !.result = text,
                      !.hist = Append(f.hist, "ok")]

\* asyncio.sleep returns (line 50 then continue; line 59 then next iteration)
OnWake(f) == Iterate(f, f.attempt + 1)

Callers == DOMAIN call

RespondRateLimit(c) ==
    /\ call[c].phase = "request"
    /\ call' = [call EXCEPT ![c] = OnRateLimit(@)]
    /\ UNCHANGED <<pc, topics_text, topics, task, order, results,
                   queue, invoked, looked, output>>

RespondBody(c) ==
    /\ call[c].phase = "request"
    /\ \E data \in Bodies(c) : call' = [call EXCEPT ![c] = OnBody(@, data)]
    /\ UNCHANGED <<pc, topics_text, topics, task, order, results,
                   queue, invoked, looked, output>>

RespondError(c) ==
    /\ call[c].phase = "request"
    /\ \E kind \in TransportErrors :
          call' = [call EXCEPT ![c] = OnException(@, kind, "error")]
    /\ UNCHANGED <<pc, topics_text, topics, task, order, results,
                   queue, invoked, looked, output>>

Wake(c) ==
    /\ call[c].phase = "sleep"
    /\ call' = [call EXCEPT ![c] = OnWake(@)]
    /\ UNCHANGED <<pc, topics_text, topics, task, order, results,
                   queue, invoked, looked, output>>

(***************************************************************************)
(* get_topic_description (lines 63-83)                                     *)
(***************************************************************************)
\* line 77: description[:100] needs a sequence type
Sliceable(x) == x.t \in {"str", "list"}

\* line 79: not description
Falsy(x) == x.v = <<>>

\* no substitution of the fallback string
GetTopicDescription_NoFallback(topic, description) ==
    IF ~Sliceable(description) THEN Exc("TypeError")
    ELSE IF IsStr(description) THEN Str(Strip(description.v)) ELSE Exc("AttributeError")

\* lines 77-83, given what query_gemini returned
GetTopicDescription(topic, description) ==
    IF ~Sliceable(description) THEN Exc("TypeError")
    ELSE LET d == IF Falsy(description) THEN Str(Fallback(topic)) ELSE description
         IN IF IsStr(d) THEN Str(Strip(d.v)) ELSE Exc("AttributeError")

(***************************************************************************)
(* get_videos (lines 85-95)                                                *)
(***************************************************************************)
YoutubeUrl ==
    <<"h", "t", "t", "p", "s", ":", "/", "/", "y", "o", "u", "t", "u", "b", "e",
      ".", "c", "o", "m">>

NotAvailable == <<"N", "/", "A">>

RawA == [url_suffix |-> <<"/", "a">>, title |-> <<"a">>, duration |-> <<"1">>,
         views |-> <<"9">>]
RawNoViews == [url_suffix |-> <<"/", "b">>, title |-> <<"b">>, duration |-> <<"2">>]
RawNoTitle == [url_suffix |-> <<"/", "c">>, duration |-> <<"3">>, views |-> <<"7">>]

\* what YoutubeSearch(...).to_dict() can do: raise, or return raw records
LookupOutcomes ==
    { Exc("LookupError"), List(<<>>), List(<<RawA, RawNoViews>>),
      List(<<RawA, RawNoTitle>>) }

\* lines 88-93: one VideoContent of one raw record
VideoContent(r) ==
    IF {"url_suffix", "title", "duration"} \subseteq DOMAIN r
    THEN [url |-> YoutubeUrl \o r.url_suffix, title |-> r.title,
          duration |-> r.duration,
          views |-> IF "views" \in DOMAIN r THEN r.views ELSE NotAvailable]
    ELSE Exc("KeyError")

\* no handler around the lookup
LookupExceptCatches_None(kind) == FALSE

\* line 94: except Exception
LookupExceptCatches(kind) == TRUE

\* the well-formed records kept, the others skipped
WellFormed(r) == {"url_suffix", "title", "duration"} \subseteq DOMAIN r
GetVideos_SkipBad(outcome) ==
    IF IsExc(outcome) THEN List(<<>>)
    ELSE LET good == SelectSeq(outcome.v, WellFormed)
         IN List([i \in 1..Len(good) |-> VideoContent(good[i])])

GetVideos(outcome) ==
    LET body ==
          IF IsExc(outcome) THEN outcome
          ELSE IF \E i \in 1..Len(outcome.v) :
                     ~({"url_suffix", "title", "duration"} \subseteq DOMAIN outcome.v[i])
               THEN Exc("KeyError")
               ELSE List([i \in 1..Len(outcome.v) |-> VideoContent(outcome.v[i])])
    IN IF IsExc(body) /\ LookupExceptCatches(body.v) THEN List(<<>>) ELSE body

(***************************************************************************)
(* process_all (lines 112-143): extraction                                 *)
(***************************************************************************)
\* lines 133-136: one line of the response
TopicsOfLine(line) ==
    IF StartsWith(line, Marker)
    THEN LET topic == Strip(Replace(line, Marker, <<>>))
         IN IF topic # <<>> THEN <<topic>> ELSE <<>>
    ELSE <<>>

RECURSIVE ExtractLoop(_)
ExtractLoop(lines) ==
    IF lines = <<>> THEN <<>>
    ELSE TopicsOfLine(Head(lines)) \o ExtractLoop(Tail(lines))

\* lines 131-136
ExtractTopics(text) == ExtractLoop(Split(text, "\n"))

(***************************************************************************)
(* The units of the fan-out                                                *)
(***************************************************************************)
Units == 1..Len(task)

NewTask ==
    [st |-> "pending", qresult |-> Unset, exhausted |-> FALSE,
     description |-> Unset, vst |-> "none", lookup |-> Unset, videos |-> Unset,
     record |-> Unset]

\* lines 106-110
TopicContent(topic, description, videos) ==
    [topic |-> topic, description |-> description, videos |-> videos]

\* results appended as the units complete
GatherResults_ByCompletion == [k \in 1..Len(order) |-> task[order[k]].record]

\* records without videos left out
HasVideos(r) == r.videos # <<>>
GatherResults_DropDegraded == SelectSeq([i \in 1..Len(task) |-> task[i].record], HasVideos)

\* line 143: the value of gather: one result per awaitable, in argument order
GatherResults == [i \in 1..Len(task) |-> task[i].record]

Running == { i \in Units : task[i].vst = "running" }

Drop(f, c) == [k \in (DOMAIN f) \ {c} |-> f[k]]

\* an executor that starts a thread for every work item
PoolHasIdleWorker_Always == TRUE

\* the work queue of the executor has an idle worker: line 29
PoolHasIdleWorker == Cardinality(Running) < max_workers

\* number of times query_gemini was entered for caller c
Invocations(c) == IF c \in DOMAIN invoked THEN invoked[c] ELSE 0

Init ==
    /\ pc = "idle"
    /\ call = <<>>
    /\ topics_text = Unset
    /\ topics = <<>>
    /\ task = <<>>
    /\ order = <<>>
    /\ results = Unset
    /\ queue = <<>>
    /\ invoked = <<>>
    /\ looked = <<>>
    /\ output = Unset

\* process_all up to its first suspension: lines 113-128
ProcessAll ==
    /\ pc = "idle"
    /\ pc' = "query"
    /\ call' = (0 :> NewCall)
    /\ invoked' = (0 :> Invocations(0) + 1) @@ invoked
    /\ UNCHANGED <<topics_text, topics, task, order, results, queue, looked, output>>

\* process_all resumes with the extraction text: lines 128-143
ParseTopics ==
    /\ pc = "query"
    /\ 0 \in DOMAIN call
    /\ call[0].phase \in {"returned", "raised"}
    /\ call' = Drop(call, 0)
    /\ UNCHANGED <<order, queue, invoked, output>>
    /\ IF call[0].phase = "raised"
       THEN /\ pc' = "raised"
            /\ results' = call[0].result
            /\ UNCHANGED <<topics_text, topics, task, looked>>
       ELSE /\ topics_text' = call[0].result
            /\ IF ~IsStr(call[0].result)
               THEN /\ pc' = "raised"
                    /\ results' = Exc("AttributeError")
                    /\ UNCHANGED <<topics, task, looked>>
               ELSE LET ts == ExtractTopics(call[0].result.v)
                    IN /\ topics' = ts
                       /\ task' = [i \in 1..Len(ts) |-> NewTask]
                       /\ looked' = [i \in 1..Len(ts) |-> 0]
                       /\ IF ts = <<>>
                          THEN pc' = "returned" /\ results' = List(<<>>)
                          ELSE pc' = "gather" /\ results' = results

\* description calls that take a worker of the pool as well
StartTopic_PoolBounded(i) ==
    /\ pc = "gather"
    /\ task[i].st = "pending"
    /\ \A j \in 1..(i - 1) : task[j].st # "pending"
    /\ Cardinality(DOMAIN call) < max_workers
    /\ task' = [task EXCEPT ![i].st = "describing"]
    /\ call' = (i :> NewCall) @@ call
    /\ invoked' = (i :> Invocations(i) + 1) @@ invoked
    /\ UNCHANGED <<pc, topics_text, topics, order, results, queue, looked, output>>

\* the first step of process_topic: lines 99, 65-75, 32-37
StartTopic(i) ==
    /\ pc = "gather"
    /\ task[i].st = "pending"
    /\ \A j \in 1..(i - 1) : task[j].st # "pending"
    /\ task' = [task EXCEPT ![i].st = "describing"]
    /\ call' = (i :> NewCall) @@ call
    /\ invoked' = (i :> Invocations(i) + 1) @@ invoked
    /\ UNCHANGED <<pc, topics_text, topics, order, results, queue, looked, output>>

\* a second call of query_gemini when the first one gave nothing
Describe_Retrying(i) ==
    /\ task[i].st = "describing"
    /\ i \in DOMAIN call
    /\ call[i].phase \in {"returned", "raised"}
    /\ IF call[i].result = EmptyStr /\ Invocations(i) < 2
       THEN /\ call' = [call EXCEPT ![i] = NewCall]
            /\ invoked' = [invoked EXCEPT ![i] = @ + 1]
            /\ UNCHANGED <<task, queue>>
       ELSE /\ call' = Drop(call, i)
            /\ invoked' = invoked
            /\ LET r == call[i].result
                   d == IF call[i].phase = "raised" THEN r
                        ELSE GetTopicDescription(topics[i], r)
               IN /\ task' = [task EXCEPT
                                ![i].qresult = r,
                                ![i].exhausted = call[i].exhausted,
                                ![i].description = d,
                                ![i].st = IF IsExc(d) THEN "raised" ELSE "lookup",
                                ![i].vst = IF IsExc(d) THEN "none" ELSE "queued"]
                  /\ queue' = IF IsExc(d) THEN queue ELSE Append(queue, i)
    /\ UNCHANGED <<pc, topics_text, topics, order, results, looked, output>>

\* query_gemini has returned to get_topic_description: lines 75-83, then
\* process_topic submits get_videos to the executor: lines 99-104
Describe(i) ==
    /\ task[i].st = "describing"
    /\ i \in DOMAIN call
    /\ call[i].phase \in {"returned", "raised"}
    /\ call' = Drop(call, i)
    /\ LET r == call[i].result
           d == IF call[i].phase = "raised" THEN r
                ELSE GetTopicDescription(topics[i], r)
       IN /\ task' = [task EXCEPT
                        ![i].qresult = r,
                        ![i].exhausted = call[i].exhausted,
                        ![i].description = d,
                        ![i].st = IF IsExc(d) THEN "raised" ELSE "lookup",
                        ![i].vst = IF IsExc(d) THEN "none" ELSE "queued"]
          /\ queue' = IF IsExc(d) THEN queue ELSE Append(queue, i)
    /\ UNCHANGED <<pc, topics_text, topics, order, results, invoked, looked, output>>

\* a worker of the ThreadPoolExecutor takes the oldest work item and
\* enters get_videos
VideoStart(i) ==
    /\ task[i].vst = "queued"
    /\ queue # <<>>
    /\ Head(queue) = i
    /\ PoolHasIdleWorker
    /\ queue' = Tail(queue)
    /\ task' = [task EXCEPT ![i].vst = "running"]
    /\ looked' = [looked EXCEPT ![i] = @ + 1]
    /\ UNCHANGED <<pc, call, topics_text, topics, order, results, invoked, output>>

\* get_videos runs to its end in the worker, the lookup doing one of
\* `outcomes`: lines 85-95
VideoFinishWith(i, outcomes) ==
    /\ task[i].vst = "running"
    /\ \E outcome \in outcomes :
          task' = [task EXCEPT ![i].vst = "finished",
                               ![i].lookup = outcome,
                               ![i].videos = GetVideos(outcome)]
    /\ UNCHANGED <<pc, call, topics_text, topics, order, results,
                   queue, invoked, looked, output>>

VideoFinish(i) == VideoFinishWith(i, LookupOutcomes)

\* process_topic resumes with the videos and returns: lines 101-110
FinishTopic(i) ==
    /\ task[i].st = "lookup"
    /\ task[i].vst = "finished"
    /\ IF IsExc(task[i].videos)
       THEN /\ task' = [task EXCEPT ![i].st = "raised"]
            /\ order' = order
       ELSE /\ task' = [task EXCEPT
                          ![i].st = "done",
                          ![i].record = TopicContent(topics[i], task[i].description.v,
                                                     task[i].videos.v)]
            /\ order' = Append(order, i)
    /\ UNCHANGED <<pc, call, topics_text, topics, results, queue, invoked, looked, output>>

\* gather has every result: process_all returns the list, line 143
GatherReturn ==
    /\ pc = "gather"
    /\ \A i \in Units : task[i].st = "done"
    /\ pc' = "returned"
    /\ results' = List(GatherResults)
    /\ UNCHANGED <<call, topics_text, topics, task, order, queue, invoked, looked, output>>

\* a unit raised: gather raises into process_all at once, and asyncio.run
\* (line 146) cancels the units that have not finished; a work item still
\* in the queue is cancelled with its unit, a running lookup is not
GatherRaise ==
    /\ pc = "gather"
    /\ \E i \in Units : task[i].st = "raised"
    /\ pc' = "raised"
    /\ results' = Exc("Error")
    /\ task' = [i \in Units |->
                  IF task[i].st \in {"done", "raised"} THEN task[i]
                  ELSE [task[i] EXCEPT
                          !.st = "cancelled",
                          !.vst = IF @ = "queued" THEN "cancelled" ELSE @]]
    /\ call' = <<>>
    /\ queue' = <<>>
    /\ UNCHANGED <<topics_text, topics, order, invoked, looked, output>>

\* lines 150-154: what save_results writes
Saved(rs) == [t |-> "file", v |-> rs]

\* line 163
Warning == [t |-> "warning", v |-> <<>>]

\* main after process_syllabus has returned: lines 160-163
Main ==
    /\ pc = "returned"
    /\ output = Unset
    /\ output' = IF results.v # <<>> THEN Saved(results.v) ELSE Warning
    /\ UNCHANGED <<pc, call, topics_text, topics, task, order, results,
                   queue, invoked, looked>>

Next ==
    \/ ProcessAll
    \/ \E c \in Callers : RespondRateLimit(c)
    \/ \E c \in Callers : RespondBody(c)
    \/ \E c \in Callers : RespondError(c)
    \/ \E c \in Callers : Wake(c)
    \/ ParseTopics
    \/ \E i \in Units : StartTopic(i)
    \/ \E i \in Units : Describe(i)
    \/ \E i \in Units : VideoStart(i)
    \/ \E i \in Units : VideoFinish(i)
    \/ \E i \in Units : FinishTopic(i)
    \/ GatherReturn
    \/ GatherRaise
    \/ Main

Spec == Init /\ [][Next]_vars

(***************************************************************************)
(* Extraction alone: process_all resumes with any text built from at most  *)
(* MaxPieces pieces, returned by the first request of the extraction call  *)
(***************************************************************************)
MaxPieces == 4

Pieces == { Marker, <<" ">>, <<"A">>, <<"C">>, <<"\n">> }

RECURSIVE TextsOf(_)
TextsOf(n) ==
    IF n = 0 THEN { <<>> }
    ELSE LET shorter == TextsOf(n - 1)
         IN shorter \cup { s \o p : s \in shorter, p \in Pieces }

ParseTexts == TextsOf(MaxPieces) \cup { ExampleText }

InitParse ==
    /\ pc = "query"
    /\ \E text \in ParseTexts : call = (0 :> OnBody(NewCall, Response(Str(text))))
    /\ topics_text = Unset
    /\ topics = <<>>
    /\ task = <<>>
    /\ order = <<>>
    /\ results = Unset
    /\ queue = <<>>
    /\ invoked = (0 :> 1)
    /\ looked = <<>>
    /\ output = Unset

NextParse == ParseTopics

SpecParse == InitParse /\ [][NextParse]_vars

(***************************************************************************)
(* Properties                                                              *)
(***************************************************************************)
Returned == pc = "returned"

Last(s) == s[Len(s)]

\* C1: the list process_all returns has at index i the record of the i-th
\* unit, whose topic is the i-th extracted topic, whatever the order in
\* which the units completed.
OrderPreserved ==
    Returned =>
        \A i \in 1..Len(topics) :
            /\ i \in DOMAIN results.v
            /\ results.v[i].topic = topics[i]
            /\ results.v[i] = task[i].record

\* two different topics, the second unit completed first
OrderWitness ==
    /\ Returned
    /\ Len(topics) = 2
    /\ topics[1] # topics[2]
    /\ order = <<2, 1>>

\* C2: a returned result has exactly one record per extracted topic, also
\* when every description call is exhausted and every lookup raises, and
\* also for equal topic strings at different positions.
CountPreserved ==
    Returned => Len(results.v) = Len(topics)

\* the same topic twice, every description attempt failed, every lookup raised
CountWitness ==
    /\ Returned
    /\ Len(topics) = 2
    /\ topics[1] = topics[2]
    /\ \A i \in Units : task[i].exhausted /\ IsExc(task[i].lookup)

\* C3: a call of query_gemini issues at most 3 requests, and every response,
\* a 429 like any other, uses up one attempt: while the call is in progress
\* the number of requests is the attempt counter plus one.
RetryBound ==
    \A c \in Callers :
        /\ call[c].requests <= 3
        /\ Len(call[c].hist) <= call[c].requests
        /\ call[c].phase \in {"request", "sleep"} =>
               call[c].requests = call[c].attempt + 1

\* a call that returned after a 429, a transport error and a third request
RetryWitness ==
    \E c \in Callers :
        /\ call[c].phase = "returned"
        /\ call[c].requests = 3
        /\ call[c].hist[1] = "rate_limit"
        /\ call[c].hist[2] = "error"

OnlyRateLimits(f) == \A k \in 1..Len(f.hist) : f.hist[k] = "rate_limit"

\* C4: when every request is answered with 429, the call returns "" after
\* exactly 3 requests and has slept 1 + 2 + 4 base delays: after the k-th
\* 429 (k = 0, 1, 2) it sleeps base_delay * 2^k.
AllRateLimited ==
    \A c \in Callers :
        OnlyRateLimits(call[c]) =>
            /\ call[c].phase = "sleep" =>
                   call[c].slept = 1 * (Pow2(Len(call[c].hist)) - 1)
            /\ call[c].phase = "returned" =>
                   /\ call[c].requests = 3
                   /\ call[c].result = EmptyStr
                   /\ call[c].slept = 1 * (1 + 2 + 4)

AllRateLimitedWitness ==
    \E c \in Callers :
        /\ call[c].phase = "returned"
        /\ call[c].hist = <<"rate_limit", "rate_limit", "rate_limit">>

\* C5 as stated: query_gemini never raises, and it returns "" only when all
\* 3 attempts have been made.
EmptyOnlyAfterThreeAttempts ==
    \A c \in Callers :
        /\ call[c].phase # "raised"
        /\ (call[c].phase = "returned" /\ call[c].result = EmptyStr) =>
               call[c].requests = 3

\* bodies whose text field is empty, or absent together with any of its parents
EmptyTextBodies ==
    { Response(EmptyStr), NoTextBody, NoPartsBody, NoContentBody, NoCandidatesBody }

\* C5 amended: query_gemini never raises for a rate limit, a timeout, a
\* transport or a parse error, and it returns "" either after 3 attempts
\* of which the last failed, or on any attempt whose response was not a 429
\* and had an empty or absent text field.
EmptyAfterExhaustionOrEmptyText ==
    \A c \in Callers :
        /\ call[c].phase # "raised"
        /\ (call[c].phase = "returned" /\ call[c].result = EmptyStr) =>
               \/ /\ call[c].requests = 3
                  /\ Last(call[c].hist) # "ok"
               \/ /\ Last(call[c].hist) = "ok"
                  /\ call[c].data \in EmptyTextBodies

\* "" returned by the first attempt, and "" returned after three failures
\* the last of which was a timeout or transport error
EmptyTextWitness ==
    /\ \E c \in Callers :
          /\ call[c].phase = "returned"
          /\ call[c].result = EmptyStr
          /\ call[c].requests = 1
    /\ \E c \in Callers :
          /\ call[c].phase = "returned"
          /\ call[c].result = EmptyStr
          /\ call[c].hist = <<"error", "rate_limit", "error">>

ClaimedFallback(topic) ==
    <<"D", "e", "s", "c", "r", "i", "p", "t", "i", "o", "n", " ",
      "g", "e", "n", "e", "r", "a", "t", "i", "o", "n", " ",
      "f", "a", "i", "l", "e", "d", " ", "f", "o", "r", " ">> \o topic

\* C6: when the description call of a topic returned "" (all its attempts
\* failed), the description of the topic is "Description generation failed
\* for " followed by the topic, in the unit and in its record.
FallbackOnFailure ==
    \A i \in Units :
        task[i].qresult = EmptyStr =>
            /\ task[i].description = Str(ClaimedFallback(topics[i]))
            /\ task[i].st = "done" =>
                   task[i].record.description = ClaimedFallback(topics[i])

FallbackWitness ==
    \E i \in Units :
        /\ task[i].exhausted
        /\ task[i].qresult = EmptyStr
        /\ task[i].st = "done"

\* C7: the description of every record is a non-empty string.
DescriptionNonEmpty ==
    \A i \in Units :
        task[i].st = "done" => task[i].record.description # <<>>

\* C8: when the lookup of a topic raises, get_videos returns an empty list,
\* the unit does not raise, its record has no videos and the description it
\* would have had anyway, and every record is made of its own topic, its
\* own description result and its own lookup outcome only.
VideoIsolation ==
    /\ \A i \in Units :
          (task[i].vst = "finished" /\ IsExc(task[i].lookup)) =>
              /\ task[i].videos = List(<<>>)
              /\ task[i].st # "raised"
              /\ task[i].st = "done" => task[i].record.videos = <<>>
    /\ \A i \in Units :
          task[i].st = "done" =>
              /\ task[i].record.topic = topics[i]
              /\ task[i].record.description =
                     GetTopicDescription(topics[i], task[i].qresult).v
              /\ ~IsExc(task[i].lookup) =>
                     Len(task[i].record.videos) \in {0, Len(task[i].lookup.v)}

\* the lookup of the first topic raised, the second topic has its videos
VideoIsolationWitness ==
    /\ Returned
    /\ Len(topics) = 2
    /\ IsExc(task[1].lookup)
    /\ results.v[1].videos = <<>>
    /\ results.v[1].description = <<"d">>
    /\ Len(results.v[2].videos) = 2

\* the topic list the extraction is said to produce: per line starting with
\* the marker, what follows the leading marker, trimmed, when not empty
ClaimedTopicsOfLine(line) ==
    IF StartsWith(line, Marker)
    THEN LET rest == Strip(SubSeq(line, Len(Marker) + 1, Len(line)))
         IN IF rest # <<>> THEN <<rest>> ELSE <<>>
    ELSE <<>>

RECURSIVE ClaimedTopics(_)
ClaimedTopics(lines) ==
    IF lines = <<>> THEN <<>>
    ELSE ClaimedTopicsOfLine(Head(lines)) \o ClaimedTopics(Tail(lines))

\* C9: the extracted topics are, in line order, the trimmed non-empty
\* remainders after the leading marker of the lines that start with it.
ExtractionAsClaimed ==
    IsStr(topics_text) => topics = ClaimedTopics(Split(topics_text.v, "\n"))

\* C10: process_all never raises to its caller.
NeverRaises == pc # "raised"

\* C11: a unit leaves Pending into a state where its description call and
\* its video lookup are both in flight, and it is Completed only when both
\* have finished.
ConcurrentPaths ==
    [][\A i \in Units :
          /\ (task[i].st = "pending" /\ task'[i].st # "pending") =>
                 /\ i \in DOMAIN call'
                 /\ task'[i].vst \in {"queued", "running"}
          /\ (task[i].st # "done" /\ task'[i].st = "done") =>
                 /\ i \notin DOMAIN call
                 /\ task[i].vst = "finished"]_vars

\* C13: process_all returns only when every unit is Completed, and no
\* unit is ever cancelled: a launched unit runs to completion whatever
\* happens to its siblings.
UnitsRunToCompletion ==
    /\ Returned => \A i \in Units : task[i].st = "done"
    /\ \A i \in Units : task[i].st # "cancelled"

UnexpectedShapeBodies ==
    { NoTextBody, EmptyPartsBody, NoPartsBody, NoContentBody, EmptyCandidatesBody,
      NoCandidatesBody }

BodyArrived(f) == f.hist # <<>> /\ Last(f.hist) \in {"ok", "bad_shape"}

\* C14: a response that is not a 429 and whose body lacks candidates,
\* content, parts or text, or has an empty candidates or parts list, makes
\* the call return ""; any other body makes it return its text field.
ShapeHandling ==
    \A c \in Callers :
        BodyArrived(call[c]) =>
            /\ call[c].phase = "returned"
            /\ IF call[c].data \in UnexpectedShapeBodies
               THEN call[c].result = EmptyStr
               ELSE call[c].data = Response(call[c].result)

OnlyErrors(f) == \A k \in 1..Len(f.hist) : f.hist[k] = "error"

\* the delays slept for the failures h[1..n]: 2^k after attempt k, except
\* after an exception at the last attempt
RECURSIVE SleptFor(_, _)
SleptFor(h, n) ==
    IF n = 0 THEN 0
    ELSE SleptFor(h, n - 1) +
         (IF h[n] = "rate_limit" \/ (h[n] \in {"error", "bad_shape"} /\ n - 1 < 2)
          THEN 1 * Pow2(n - 1) ELSE 0)

\* C15: after a transport, timeout or parse error at attempt k the call
\* sleeps base_delay * 2^k exactly when k < 2; after the error of the last
\* attempt it returns "" at once, so three errors cost 3 requests and a
\* total delay of 1 + 2.
ErrorBackoff ==
    \A c \in Callers :
        /\ call[c].slept = SleptFor(call[c].hist, Len(call[c].hist))
        /\ (call[c].phase = "sleep" /\ Last(call[c].hist) = "error") =>
               call[c].attempt < 2
        /\ (call[c].hist # <<>> /\ OnlyErrors(call[c])) =>
               /\ call[c].phase \in {"sleep", "request", "returned"}
               /\ call[c].phase = "returned" =>
                      /\ call[c].requests = 3
                      /\ call[c].result = EmptyStr
                      /\ call[c].slept = 1 * (1 + 2)
               /\ Len(call[c].hist) = 3 => call[c].phase = "returned"

ErrorBackoffWitness ==
    \E c \in Callers :
        /\ call[c].phase = "returned"
        /\ call[c].hist = <<"error", "error", "error">>
        /\ call[c].slept = 3

\* C16: query_gemini is entered once for the extraction and once for each
\* topic, the lookup once for each topic: a returned run over N topics has
\* made N + 1 calls of query_gemini and N lookups.
InvokedOnce ==
    /\ \A c \in DOMAIN invoked : invoked[c] = 1
    /\ \A i \in DOMAIN looked : looked[i] <= 1
    /\ Returned =>
           /\ DOMAIN invoked = 0..Len(topics)
           /\ Cardinality(DOMAIN invoked) = Len(topics) + 1
           /\ \A i \in 1..Len(topics) : looked[i] = 1

\* a returned run of two topics, one of them after three failed attempts
InvokedOnceWitness ==
    /\ Returned
    /\ Len(topics) = 2
    /\ \E i \in Units : task[i].exhausted

RunOver == pc = "raised" \/ (pc = "returned" /\ output # Unset)

\* C17: an extraction without topics ends in an empty result, without
\* error, description call or lookup, and the driver warns and writes
\* nothing; an extraction with at least one topic ends with the output
\* written.
OutputWritten ==
    /\ (IsStr(topics_text) /\ topics = <<>>) =>
           /\ Returned
           /\ results = List(<<>>)
           /\ task = <<>>
           /\ DOMAIN invoked = {0}
           /\ output \in {Unset, Warning}
    /\ (topics # <<>> /\ RunOver) => output.t = "file"

\* C20: the videos of a unit are none when one returned raw record lacks
\* url_suffix, title or duration; otherwise one per raw record, in order,
\* with views "N/A" where the raw record has none.
AllOrNothingVideos ==
    \A i \in Units :
        (task[i].vst = "finished" /\ ~IsExc(task[i].lookup)) =>
            LET raw == task[i].lookup.v
                vs == task[i].videos.v
            IN /\ task[i].videos.t = "list"
               /\ IF \E k \in 1..Len(raw) :
                        ~({"url_suffix", "title", "duration"} \subseteq DOMAIN raw[k])
                  THEN vs = <<>>
                  ELSE /\ Len(vs) = Len(raw)
                       /\ \A k \in 1..Len(raw) :
                             /\ vs[k].title = raw[k].title
                             /\ vs[k].duration = raw[k].duration
                             /\ vs[k].url = YoutubeUrl \o raw[k].url_suffix
                             /\ vs[k].views = IF "views" \in DOMAIN raw[k]
                                              THEN raw[k].views
                                              ELSE <<"N", "/", "A">>
               /\ task[i].st = "done" => task[i].record.videos = vs

\* one unit whose second raw record has no title, one whose second raw
\* record has no views
AllOrNothingWitness ==
    /\ Len(topics) = 2
    /\ task[1].st = "done"
    /\ task[1].lookup = List(<<RawA, RawNoTitle>>)
    /\ task[1].record.videos = <<>>
    /\ task[2].st = "done"
    /\ task[2].lookup = List(<<RawA, RawNoViews>>)
    /\ Len(task[2].record.videos) = 2
    /\ task[2].record.videos[2].views = <<"N", "/", "A">>

(***************************************************************************)
(* The executor alone: PoolUnits topics "A", every description call has    *)
(* returned "d" and every lookup is in the work queue, in topic order      *)
(***************************************************************************)
PoolUnits == 11

\* "Topic: A" on each of n lines
RECURSIVE PoolText(_)
PoolText(n) ==
    IF n = 1 THEN Marker \o <<" ", "A">>
    ELSE PoolText(n - 1) \o <<"\n">> \o Marker \o <<" ", "A">>

PoolOutcomes == { Exc("LookupError"), List(<<RawA>>) }

InitPool ==
    /\ pc = "gather"
    /\ call = <<>>
    /\ topics_text = Str(PoolText(PoolUnits))
    /\ topics = ExtractTopics(PoolText(PoolUnits))
    /\ task = [i \in 1..PoolUnits |->
                 [NewTask EXCEPT !.st = "lookup", !.qresult = Str(<<"d">>),
                                 !.description = Str(<<"d">>), !.vst = "queued"]]
    /\ order = <<>>
    /\ results = Unset
    /\ queue = [i \in 1..PoolUnits |-> i]
    /\ invoked = [c \in 0..PoolUnits |-> 1]
    /\ looked = [i \in 1..PoolUnits |-> 0]
    /\ output = Unset

NextPool ==
    \/ \E i \in Units : VideoStart(i)
    \/ \E i \in Units : VideoFinishWith(i, PoolOutcomes)

SpecPool == InitPool /\ [][NextPool]_vars

\* C12: at most 10 lookups run at the same time; a queued lookup cannot
\* start while 10 are running and can start as soon as fewer are, whether
\* the lookups that finished succeeded or failed.
PoolBound ==
    /\ Cardinality(Running) <= 10
    /\ queue # <<>> =>
           (ENABLED VideoStart(Head(queue))) = (Cardinality(Running) < 10)

\* the eleventh lookup runs on the worker that a failed lookup released
PoolWitness ==
    /\ Len(task) >= 11
    /\ task[11].vst = "running"
    /\ Cardinality(Running) = 10
    /\ \E i \in Units :
          /\ task[i].vst = "finished"
          /\ IsExc(task[i].lookup)
          /\ \A j \in Units \ {i} : task[j].vst # "finished"

(***************************************************************************)
(* The fan-out over PoolUnits topics: process_all has parsed PoolUnits     *)
(* lines "Topic: A"; only the requests of the first unit are answered, the *)
(* requests of the other units stay in flight                              *)
(***************************************************************************)
InitFanOut ==
    /\ pc = "gather"
    /\ call = <<>>
    /\ topics_text = Str(PoolText(PoolUnits))
    /\ topics = ExtractTopics(PoolText(PoolUnits))
    /\ task = [i \in 1..PoolUnits |-> NewTask]
    /\ order = <<>>
    /\ results = Unset
    /\ queue = <<>>
    /\ invoked = (0 :> 1)
    /\ looked = [i \in 1..PoolUnits |-> 0]
    /\ output = Unset

Answered == Callers \cap {1}

NextFanOut ==
    \/ \E i \in Units : StartTopic(i)
    \/ \E c \in Answered : RespondRateLimit(c)
    \/ \E c \in Answered : RespondBody(c)
    \/ \E c \in Answered : RespondError(c)
    \/ \E c \in Answered : Wake(c)
    \/ \E i \in Units : Describe(i)
    \/ \E i \in Units : VideoStart(i)
    \/ \E i \in Units : VideoFinish(i)
    \/ \E i \in Units : FinishTopic(i)
    \/ GatherRaise

SpecFanOut == InitFanOut /\ [][NextFanOut]_vars

InFlight == { c \in Callers : call[c].phase \in {"request", "sleep"} }

\* C18: the description calls take no worker of the pool: the next unit can
\* start its call however many calls are in flight, and whatever the other
\* units are doing (sleeping in a backoff, waiting for or running their
\* lookup), a unit whose request is in flight can receive its response and
\* a unit whose sleep is over can go on.
Unblocked ==
    /\ \A i \in Units :
          (pc = "gather" /\ task[i].st = "pending"
             /\ \A j \in 1..(i - 1) : task[j].st # "pending") =>
              ENABLED StartTopic(i)
    /\ \A c \in Callers :
          /\ call[c].phase = "request" =>
                 /\ ENABLED RespondBody(c)
                 /\ ENABLED RespondRateLimit(c)
                 /\ ENABLED RespondError(c)
          /\ call[c].phase = "sleep" => ENABLED Wake(c)
          /\ call[c].phase = "returned" => ENABLED Describe(c)

\* more than 10 description calls in flight at once, the first unit in its
\* backoff sleep
UnblockedWitness ==
    /\ Len(task) >= 11
    /\ Cardinality(InFlight) = Len(task)
    /\ call[1].phase = "sleep"
    /\ \A i \in 2..Len(task) : call[i].phase = "request"

(***************************************************************************)
(* Fair scheduling: every request is answered or times out, every sleep    *)
(* ends, every ready coroutine is resumed, every worker goes on            *)
(***************************************************************************)
\* the backend answers the request of caller c, or the request times out
\* or fails, and a sleep of caller c ends
Backend(c) ==
    /\ c \in Callers
    /\ RespondRateLimit(c) \/ RespondBody(c) \/ RespondError(c) \/ Wake(c)

\* the coroutine of process_all, with the driver
MainTask ==
    ProcessAll \/ Backend(0) \/ ParseTopics \/ GatherReturn \/ GatherRaise \/ Main

\* the coroutine of unit i
UnitTask(i) ==
    /\ i \in Units
    /\ StartTopic(i) \/ Backend(i) \/ Describe(i) \/ FinishTopic(i)

\* the pool worker that serves unit i
Worker(i) ==
    /\ i \in Units
    /\ VideoStart(i) \/ VideoFinish(i)

\* each of these is sequential: at most one of its steps is enabled
Fairness ==
    /\ WF_vars(MainTask)
    /\ \A i \in 1..2 : WF_vars(UnitTask(i)) /\ WF_vars(Worker(i))

FairSpec == Spec /\ Fairness

\* C19: under fair scheduling every run returns, with every unit Completed.
Terminates ==
    <>(Returned /\ \A i \in Units : task[i].st = "done")

====
